---- MODULE Spec2Model ----
(***************************************************************************)
(* The tool-calling agent of api/agent.py + api/chat.py (run_agent /       *)
(* handle_chat) and of api/main.py (the /chat handler with its lazily      *)
(* initialised process-wide agent), as one state machine.                  *)
(*                                                                         *)
(* Both handlers drive the same two-node graph: node "agent" calls the     *)
(* model and appends its message, a conditional edge goes to the tool node *)
(* when that message carries tool calls and to END otherwise, and the tool *)
(* node always goes back to "agent".  The compiled graph runs with the     *)
(* graph library's default step limit, since neither compile() call        *)
(* configures one.                                                         *)
(*                                                                         *)
(* A process serves one of the two applications (app): main.py's app,      *)
(* whose /chat handler never awaits and so runs to its return before any   *)
(* other handler, or an application routing chat.py's handle_chat, whose   *)
(* handlers interleave at the awaits of run_agent's stream.  The model is  *)
(* the environment: it answers each call with any text and any tool calls  *)
(* within the bounds below, or raises.                                     *)
(***************************************************************************)
EXTENDS Integers, Sequences, FiniteSets, TLC

\* ------------------------------------------------------------------ bounds
NSlots == 2          \* requests that can be in flight together
MaxToolCalls == 1    \* tool calls (and failing calls) of the unscripted model in one behaviour
ScriptTurns == MaxToolCalls + 1  \* tool-request turns of a scripted model that then answers

\* ------------------------------------------------------- program constants
RecursionLimit == 25 \* graph.compile() / workflow.compile() without recursion_limit

NoKey == ""          \* None / unset / empty string: all falsy in the code's tests
RequestKeys == {"kA"}
EnvKeys == {"kEnv"}
AllKeys == RequestKeys \cup EnvKeys

\* tools.py: AVAILABLE_TOOLS, by name
AVAILABLE_TOOLS == {"get_weather", "wiki_search", "fun_fact", "random_color"}

\* the names the model asks for: a registered tool and a hallucinated one
ToolNames == {"get_weather", "doThing"}

\* the text of a model turn
Contents == {"", "It's sunny in Paris."}

ApologyText == "I apologize, but I couldn't generate a response."
NeedKeyText == "I need an OpenAI API key to function."
InitTroubleText == "Sorry, I'm having trouble initializing. Please check the logs."
MockText == "I need an OpenAI API key to function properly."
UserText == "What's the weather in Paris?"

\* the exceptions model.invoke raises: rate limit, unparsable response,
\* provider unreachable
GatewayErrors == {"rate_limited", "malformed", "unavailable"}

Slots == 1..NSlots

VARIABLES
    app,          \* the application the process serves: main.py's app, or one routing chat.py
    env,          \* os.environ["OPENAI_API_KEY"], NoKey when unset
    env0,         \* the ambient credential the process was started with
    mainAgent,    \* main._global_agent: FALSE is None, TRUE is the compiled graph
    agentGlobal,  \* agent._global_agent: NoKey is None, else the key its model is bound to
    initReturn,   \* what a call of initialize_global_agent is returning, NoReturn if none
    loop,         \* slot whose handler occupies the event loop in a blocking call, 0 if none
    issued,       \* what the unscripted model has taken of its budget of tool calls
    health,       \* the /health response being returned, NoHealth if none
    req           \* per slot: the request being handled and its handler's locals

vars == <<app, env, env0, mainAgent, agentGlobal, initReturn, loop, issued, health, req>>

\* ---------------------------------------------------------------- messages
UserMsg(c) ==
    [role |-> "user", content |-> c, tool_calls |-> <<>>,
     tool_call_id |-> 0, name |-> "", status |-> "", finish |-> ""]

\* finish is the provider's finish reason, kept in response_metadata: "stop"
\* for an answer, "tool_calls" for a turn that requests tools
AIMsg(c, calls) ==
    [role |-> "assistant", content |-> c, tool_calls |-> calls,
     tool_call_id |-> 0, name |-> "", status |-> "",
     finish |-> IF calls # <<>> THEN "tool_calls" ELSE "stop"]

ToolMsg(c, id, nm, st) ==
    [role |-> "tool", content |-> c, tool_calls |-> <<>>,
     tool_call_id |-> id, name |-> nm, status |-> st, finish |-> ""]

Last(s) == s[Len(s)]

\* faulty variant: a node's update replaces the history
add_messages_replacing(left, right) == right

\* AgentState.messages: Annotated[list, add_messages], the reducer that
\* merges a node's update into the history; the messages of an update are
\* new ones, which it appends
add_messages(left, right) == left \o right

\* the call lists a model turn can carry: up to n names, in the model's order
NameSeqs(n) == UNION {[1..k -> ToolNames] : k \in 0..n}

\* the model's tool calls: fresh identifiers, in emitted order
MkCalls(names, base) ==
    [i \in 1..Len(names) |-> [id |-> base + i, name |-> names[i]]]

Perms(n) == {p \in [1..n -> 1..n] : \A i, j \in 1..n : i # j => p[i] # p[j]}

SetToSeqs(S) ==
    {s \in [1..Cardinality(S) -> S] : \A i, j \in 1..Cardinality(S) : i # j => s[i] # s[j]}

\* --------------------------------------------------------------- the tools
\* faulty variant: an unregistered tool's result is not flagged as an error
ExecuteToolUnflagged(call) ==
    ToolMsg("result", call.id, call.name, "success")

\* faulty variant: the tool message does not carry its call's identifier
ExecuteToolNoId(call) ==
    IF call.name \in AVAILABLE_TOOLS
    THEN ToolMsg("result", 0, call.name, "success")
    ELSE ToolMsg("Error: not a valid tool", 0, call.name, "error")

\* ToolNode on one call: a registered tool's output, or an error-flagged
\* message for a name that is not in AVAILABLE_TOOLS
ExecuteTool(call) ==
    IF call.name \in AVAILABLE_TOOLS
    THEN ToolMsg("result", call.id, call.name, "success")
    ELSE ToolMsg("Error: not a valid tool", call.id, call.name, "error")

\* faulty variant: the messages are returned in completion order
ToolNodeOutputsAsCompleted(calls, order) ==
    [i \in 1..Len(calls) |-> ExecuteTool(calls[order[i]])]

\* ToolNode on the calls of the last message: the executions complete in
\* `order`, the messages are returned in the order of the calls
ToolNodeOutputs(calls, order) ==
    [i \in 1..Len(calls) |-> ExecuteTool(calls[i])]

\* ------------------------------------------------------- conditional edges
\* faulty variant: the edge never ends the graph
decide_next_always_action(messages) == "action"

\* agent.py: decide_next
decide_next(messages) ==
    IF Last(messages).tool_calls # <<>> THEN "action" ELSE "END"

\* faulty variant: the edge never goes to the tool node
should_continue_always_end(messages) == "END"

\* main.py: should_continue; a HumanMessage has no tool_calls attribute
should_continue(messages) ==
    IF Last(messages).role # "assistant" THEN "raise"
    ELSE IF Last(messages).tool_calls # <<>> THEN "tools" ELSE "END"

NextNode(handler, messages) ==
    IF handler = "main" THEN should_continue(messages) ELSE decide_next(messages)

\* A scripted model is a function of the history: it requests the same calls
\* on every turn (turns = Forever), or on its first turns and then answers.
Forever == 0
NoScript == [names |-> <<>>, turns |-> Forever]
Scripts ==
    {NoScript,
     [names |-> <<"get_weather">>, turns |-> Forever],
     [names |-> <<"get_weather", "doThing">>, turns |-> ScriptTurns]}

\* ------------------------------------------------------------ request slots
IdleReq ==
    [handler |-> "none", pc |-> "idle", reqKey |-> NoKey, cred |-> NoKey,
     script |-> NoScript, hist |-> <<>>, steps |-> 0, run |-> 0, used |-> <<>>,
     nextId |-> 0, error |-> "", failures |-> 0, prompt |-> <<>>,
     tool_calls_made |-> <<>>, final_response |-> "",
     status |-> 0, response |-> "", tool_calls |-> <<>>]

\* agent.invoke / agent.astream on {"messages": [HumanMessage(message)]}
StartRun(q, n) ==
    [q EXCEPT !.pc = "agent", !.hist = <<UserMsg(UserText)>>, !.steps = 0, !.run = n,
              !.prompt = <<>>]

\* a ChatResponse returned to the caller
Respond(q, text, names) ==
    [q EXCEPT !.pc = "done", !.status = 200, !.response = text, !.tool_calls = names]

\* an HTTPException raised to the caller; the run's state is dropped with
\* the stack
Fail(q, code) ==
    [q EXCEPT !.pc = "done", !.status = code, !.response = "", !.tool_calls = <<>>,
              !.hist = <<>>, !.tool_calls_made = <<>>, !.final_response = "",
              !.prompt = <<>>]

\* the assistant messages of a history
AssistantCount(messages) ==
    Cardinality({i \in 1..Len(messages) : messages[i].role = "assistant"})

\* what a turn takes of the unscripted model's budget: its tool calls, and
\* one for a tool-request turn that carries no call
TurnCost(turn) ==
    IF turn.finish = "tool_calls" /\ turn.names = <<>> THEN 1 ELSE Len(turn.names)

\* the turns the model can answer with: a scripted model's one turn, or any
\* text with any calls out of the n-th to the MaxToolCalls-th tool call of
\* the unscripted model, or, within the same budget, its tool-request turn
\* that carries no call
GatewayTurns(q, n) ==
    IF q.script # NoScript
    THEN IF q.script.turns = Forever \/ AssistantCount(q.hist) < q.script.turns
         THEN {[content |-> "", names |-> q.script.names, finish |-> "tool_calls"]}
         ELSE {[content |-> "It's sunny in Paris.", names |-> <<>>, finish |-> "stop"]}
    ELSE {[content |-> c, names |-> ns,
           finish |-> IF ns # <<>> THEN "tool_calls" ELSE "stop"] :
            c \in Contents,
            ns \in NameSeqs(MaxToolCalls - n)}
         \cup {t \in {[content |-> "", names |-> <<>>, finish |-> "tool_calls"]} :
                  n < MaxToolCalls}

NoHealth == [status |-> "none"]

NoReturn == "none"

\* a handler is returning its response: nothing else runs until it is out
Delivering ==
    \/ \E s \in Slots : req[s].pc = "done"
    \/ health # NoHealth
    \/ initReturn # NoReturn

\* a request is being handled
InFlight == \E s \in Slots : req[s].pc # "idle"

\* slots are handed out lowest first
FreeSlot(r) ==
    /\ req[r].pc = "idle"
    /\ \A s \in Slots : s < r => req[s].pc # "idle"

\* a scripted model takes the whole budget of tool calls of the behaviour
ScriptAllowed(script, n) == script = NoScript \/ n = 0

AfterScript(script, n) == IF script = NoScript THEN n ELSE MaxToolCalls

TypeOK ==
    /\ env \in AllKeys \cup {NoKey}
    /\ env0 \in EnvKeys \cup {NoKey}
    /\ mainAgent \in BOOLEAN
    /\ agentGlobal \in AllKeys \cup {NoKey}
    /\ initReturn \in {NoReturn, "True", "False"}
    /\ loop \in 0..NSlots
    /\ app \in {"main", "chat"}
    /\ issued \in 0..MaxToolCalls
    /\ health = NoHealth \/ health.status \in {"healthy", "error"}
    /\ \A r \in Slots :
         /\ req[r].handler \in {"none", "main", "chat"}
         /\ req[r].pc \in {"idle", "agent", "action", "tools", "END", "done"}
         /\ req[r].status \in {0, 200, 400, 500}

Init ==
    /\ env \in EnvKeys \cup {NoKey}
    /\ env0 = env
    /\ mainAgent = FALSE
    /\ agentGlobal = NoKey
    /\ initReturn = NoReturn
    /\ loop = 0
    /\ app \in {"main", "chat"}
    /\ issued = 0
    /\ health = NoHealth
    /\ req = [r \in Slots |-> IdleReq]

\* faulty variant: the graph runs without a step limit
NoStepLimit(steps) == TRUE

\* the compiled graph runs a step only below its step limit
WithinLimit(steps) == steps < RecursionLimit

\* ----------------------------------------------------------------- actions
\* main.py: initialize_agent_if_needed, the value of _global_agent it leaves
initialize_agent_if_needed(agent, ok) ==
    IF agent = FALSE THEN ok ELSE agent

\* main.py: request.api_key or request.openai_api_key or os.getenv(...)
ResolveMainKey(api_key, openai_api_key, ambient) ==
    IF api_key # NoKey THEN api_key
    ELSE IF openai_api_key # NoKey THEN openai_api_key
    ELSE ambient

\* main.py: chat, from the start of the handler to the call of agent.invoke.
\* The handler never awaits, so it runs on the event loop until it returns.
chat(r, api_key, openai_api_key, script, ok) ==
    LET key == ResolveMainKey(api_key, openai_api_key, env)
        agent == initialize_agent_if_needed(mainAgent, ok)
        q == [IdleReq EXCEPT !.handler = "main",
                             !.reqKey = ResolveMainKey(api_key, openai_api_key, NoKey),
                             !.cred = key, !.script = script]
    IN  /\ app = "main"
        /\ FreeSlot(r)
        /\ loop = 0
        /\ ~Delivering
        /\ ScriptAllowed(script, issued)
        /\ IF key = NoKey
           THEN /\ req' = [req EXCEPT ![r] = Respond(q, NeedKeyText, <<>>)]
                /\ UNCHANGED <<env, mainAgent, loop, issued>>
           ELSE /\ env' = key
                /\ mainAgent' = agent
                /\ IF agent = FALSE
                   THEN /\ req' = [req EXCEPT ![r] =
                                     Respond([q EXCEPT !.error = "construct"],
                                             InitTroubleText, <<>>)]
                        /\ UNCHANGED <<loop, issued>>
                   ELSE /\ req' = [req EXCEPT ![r] = StartRun(q, 1)]
                        /\ loop' = r
                        /\ issued' = AfterScript(script, issued)
        /\ UNCHANGED <<app, health, env0, agentGlobal, initReturn>>

\* chat.py: handle_chat, from the start of the handler to the first step of
\* run_agent's astream; create_agent returns the compiled graph (ok) or raises
handle_chat(r, openai_api_key, script, ok) ==
    LET q == [IdleReq EXCEPT !.handler = "chat", !.reqKey = openai_api_key,
                             !.script = script]
    IN  /\ app = "chat"
        /\ FreeSlot(r)
        /\ loop = 0
        /\ ~Delivering
        /\ ScriptAllowed(script, issued)
        /\ (openai_api_key = NoKey => ok)
        /\ IF openai_api_key # NoKey /\ ~ok
           THEN /\ req' = [req EXCEPT ![r] =
                             Fail([q EXCEPT !.cred = openai_api_key,
                                            !.error = "construct"], 500)]
                /\ UNCHANGED issued
           ELSE IF openai_api_key # NoKey
           THEN /\ req' = [req EXCEPT ![r] = StartRun([q EXCEPT !.cred = openai_api_key], 1)]
                /\ issued' = AfterScript(script, issued)
           ELSE IF agentGlobal # NoKey
           THEN /\ req' = [req EXCEPT ![r] = StartRun([q EXCEPT !.cred = agentGlobal], 1)]
                /\ issued' = AfterScript(script, issued)
           ELSE /\ req' = [req EXCEPT ![r] = Fail(q, 400)]
                /\ UNCHANGED issued
        /\ UNCHANGED <<app, health, env, env0, mainAgent, agentGlobal, initReturn, loop>>

\* faulty variant: the model call looks for the key in the request only
ModelKeyRequestOnly(q, ambient) == q.reqKey

\* the credential a model call of this request is made with: main.py's
\* call_model reads the environment at every call, agent.py's model was
\* bound to its key by create_agent
ModelKey(q, ambient) ==
    IF q.handler = "main" THEN ambient ELSE q.cred

\* run_agent's loop body on an "agent" chunk of the stream
StreamAgentChunk(q, msg) ==
    IF q.handler = "chat" /\ q.run = 1 /\ msg.content # ""
    THEN [q EXCEPT !.final_response = msg.content]
    ELSE q

\* run_agent's loop body on an "action" chunk of the stream
StreamActionChunk(q, msgs) ==
    IF q.handler = "chat" /\ q.run = 1
    THEN [q EXCEPT !.tool_calls_made = @ \o [i \in 1..Len(msgs) |-> msgs[i].name]]
    ELSE q

\* faulty variant: the model is given the latest message only
ModelInputLastOnly(messages) == <<Last(messages)>>

\* call_model: the messages handed to model.invoke, state["messages"]
ModelInput(messages) == messages

\* the edge taken after the agent node
AfterAgent(q) ==
    LET nxt == NextNode(q.handler, q.hist)
    IN  IF nxt = "raise" THEN Fail([q EXCEPT !.error = "attribute"], 500)
        ELSE [q EXCEPT !.pc = nxt]

\* node "agent": call_model of agent.py and of main.py, the model answering
call_model(r) ==
    LET q == req[r]
        key == ModelKey(q, env)
    IN  /\ q.pc = "agent"
        /\ loop \in {0, r}
        /\ ~Delivering
        /\ WithinLimit(q.steps)
        /\ IF q.handler = "main" /\ key = NoKey
           THEN LET q1 == [q EXCEPT !.hist = add_messages(@, <<UserMsg(MockText)>>),
                                    !.steps = @ + 1]
                IN  /\ req' = [req EXCEPT ![r] = AfterAgent(q1)]
                    /\ loop' = IF AfterAgent(q1).pc = "done" THEN 0 ELSE loop
                    /\ UNCHANGED issued
           ELSE \E turn \in GatewayTurns([q EXCEPT !.hist = ModelInput(q.hist)], issued) :
                  LET msg == [AIMsg(turn.content, MkCalls(turn.names, q.nextId))
                                EXCEPT !.finish = turn.finish]
                      q1 == [q EXCEPT !.hist = add_messages(@, <<msg>>),
                                      !.steps = @ + 1,
                                      !.used = Append(@, key),
                                      !.prompt = ModelInput(q.hist),
                                      !.nextId = @ + Len(turn.names)]
                  IN  /\ req' = [req EXCEPT ![r] = AfterAgent(StreamAgentChunk(q1, msg))]
                      /\ issued' = IF q.script = NoScript
                                   THEN issued + TurnCost(turn) ELSE issued
                      /\ UNCHANGED loop
        /\ UNCHANGED <<app, health, env, env0, mainAgent, agentGlobal, initReturn>>

\* node "agent" when model.invoke raises: call_model catches nothing, the
\* exception leaves the graph and reaches the handler's except clause.  A
\* failing call takes one of the unscripted model's budget.
ModelRaises(r, kind) ==
    LET q == req[r]
    IN  /\ q.pc = "agent"
        /\ loop \in {0, r}
        /\ ~Delivering
        /\ WithinLimit(q.steps)
        /\ ~(q.handler = "main" /\ ModelKey(q, env) = NoKey)
        /\ issued < MaxToolCalls
        /\ issued' = issued + 1
        /\ req' = [req EXCEPT ![r] = Fail([q EXCEPT !.used = Append(@, ModelKey(q, env)),
                                                    !.error = kind,
                                                    !.failures = @ + 1], 500)]
        /\ loop' = IF loop = r THEN 0 ELSE loop
        /\ UNCHANGED <<app, health, env, env0, mainAgent, agentGlobal, initReturn>>

\* node "action" / "tools": ToolNode(AVAILABLE_TOOLS) on the last message
tool_node(r) ==
    LET q == req[r]
        calls == Last(q.hist).tool_calls
    IN  /\ q.pc \in {"action", "tools"}
        /\ loop \in {0, r}
        /\ ~Delivering
        /\ WithinLimit(q.steps)
        /\ \E order \in Perms(Len(calls)) :
             LET out == ToolNodeOutputs(calls, order)
                 q1 == [q EXCEPT !.hist = add_messages(@, out), !.steps = @ + 1, !.pc = "agent"]
             IN  req' = [req EXCEPT ![r] = StreamActionChunk(q1, out)]
        /\ UNCHANGED <<app, health, env, env0, mainAgent, agentGlobal, initReturn, loop, issued>>

\* the compiled graph after RecursionLimit steps without reaching END
GraphRecursionError(r) ==
    LET q == req[r]
    IN  /\ q.pc \in {"agent", "action", "tools"}
        /\ loop \in {0, r}
        /\ ~Delivering
        /\ ~WithinLimit(q.steps)
        /\ req' = [req EXCEPT ![r] = Fail([q EXCEPT !.error = "recursion"], 500)]
        /\ loop' = IF loop = r THEN 0 ELSE loop
        /\ UNCHANGED <<app, health, env, env0, mainAgent, agentGlobal, initReturn, issued>>

\* main.py: tc["name"] for every tool call of every message of the result
MainToolNames(messages) ==
    UNION {{messages[i].tool_calls[j].name : j \in 1..Len(messages[i].tool_calls)} :
             i \in 1..Len(messages)}

\* main.py: chat, after agent.invoke has returned: the response is the
\* content of the last message, the tool names are list(set(...))
chat_result(r) ==
    LET q == req[r]
    IN  /\ q.handler = "main"
        /\ q.pc = "END"
        /\ ~Delivering
        /\ \E names \in SetToSeqs(MainToolNames(q.hist)) :
             req' = [req EXCEPT ![r] = Respond(q, Last(q.hist).content, names)]
        /\ loop' = 0
        /\ UNCHANGED <<app, health, env, env0, mainAgent, agentGlobal, initReturn, issued>>

\* run_agent's return value
run_agent_result(q, final_response) ==
    Respond([q EXCEPT !.final_response = final_response],
            IF final_response # "" THEN final_response ELSE ApologyText,
            q.tool_calls_made)

\* agent.py: run_agent, after the stream has ended: with a final_response it
\* returns, without one it runs the graph again with agent.invoke(inputs),
\* a blocking call
run_agent_stream_end(r) ==
    LET q == req[r]
    IN  /\ q.handler = "chat"
        /\ q.run = 1
        /\ q.pc = "END"
        /\ loop \in {0, r}
        /\ ~Delivering
        /\ IF q.final_response # ""
           THEN /\ req' = [req EXCEPT ![r] = run_agent_result(q, q.final_response)]
                /\ UNCHANGED loop
           ELSE /\ req' = [req EXCEPT ![r] = StartRun(q, 2)]
                /\ loop' = r
        /\ UNCHANGED <<app, health, env, env0, mainAgent, agentGlobal, initReturn, issued>>

\* agent.py: run_agent, after agent.invoke(inputs) has returned
run_agent_invoke_end(r) ==
    LET q == req[r]
    IN  /\ q.handler = "chat"
        /\ q.run = 2
        /\ q.pc = "END"
        /\ ~Delivering
        /\ req' = [req EXCEPT ![r] = run_agent_result(q, Last(q.hist).content)]
        /\ loop' = 0
        /\ UNCHANGED <<app, health, env, env0, mainAgent, agentGlobal, initReturn, issued>>

\* the response has been delivered; the handler's locals are gone
Release(r) ==
    /\ req[r].pc = "done"
    /\ req' = [req EXCEPT ![r] = IdleReq]
    /\ UNCHANGED <<app, health, env, env0, mainAgent, agentGlobal, initReturn, loop, issued>>

\* faulty variant: the health check reports the agent without looking at it
health_response_assumes_agent(agent, ambient) ==
    [status |-> "healthy", agent_initialized |-> TRUE,
     environment_api_key |-> ambient # NoKey]

\* main.py: health_check, the JSON body it returns
health_response(agent, ambient) ==
    [status |-> "healthy", agent_initialized |-> agent # FALSE,
     environment_api_key |-> ambient # NoKey]

\* main.py: health_check; initialize_agent_if_needed catches its own
\* exceptions, so the except clause of health_check has nothing to catch
health_check(ok) ==
    LET agent == initialize_agent_if_needed(mainAgent, ok)
    IN  /\ app = "main"
        /\ loop = 0
        /\ ~Delivering
        /\ mainAgent' = agent
        /\ health' = health_response(agent, env)
        /\ UNCHANGED <<app, env, env0, agentGlobal, initReturn, loop, issued, req>>

\* the /health response has been delivered
health_delivered ==
    /\ health # NoHealth
    /\ health' = NoHealth
    /\ UNCHANGED <<app, env, env0, mainAgent, agentGlobal, initReturn, loop, issued, req>>

\* agent.py: initialize_global_agent, up to its return statement: with a
\* key in the environment it assigns the graph create_agent compiles (ok)
\* and returns True; without one, or when create_agent raises, it leaves the
\* variable as it is and returns False
initialize_global_agent(ok) ==
    /\ app = "chat"
    /\ ~InFlight
    /\ ~Delivering
    /\ IF env # NoKey /\ ok
       THEN /\ agentGlobal' = env
            /\ initReturn' = "True"
       ELSE /\ UNCHANGED agentGlobal
            /\ initReturn' = "False"
    /\ UNCHANGED <<app, health, env, env0, mainAgent, loop, issued, req>>

\* initialize_global_agent has returned
initialize_global_agent_returned ==
    /\ initReturn # NoReturn
    /\ initReturn' = NoReturn
    /\ UNCHANGED <<app, health, env, env0, mainAgent, agentGlobal, loop, issued, req>>

Next ==
    \/ \E r \in Slots, k1, k2 \in RequestKeys \cup {NoKey}, sc \in Scripts, ok \in BOOLEAN :
         chat(r, k1, k2, sc, ok)
    \/ \E r \in Slots, k \in RequestKeys \cup {NoKey}, sc \in Scripts, ok \in BOOLEAN :
         handle_chat(r, k, sc, ok)
    \/ \E r \in Slots : call_model(r)
    \/ \E r \in Slots, kind \in GatewayErrors : ModelRaises(r, kind)
    \/ \E r \in Slots : tool_node(r)
    \/ \E r \in Slots : GraphRecursionError(r)
    \/ \E r \in Slots : chat_result(r)
    \/ \E r \in Slots : run_agent_stream_end(r)
    \/ \E r \in Slots : run_agent_invoke_end(r)
    \/ \E r \in Slots : Release(r)
    \/ \E ok \in BOOLEAN : initialize_global_agent(ok)
    \/ initialize_global_agent_returned
    \/ \E ok \in BOOLEAN : health_check(ok)
    \/ health_delivered

Spec == Init /\ [][Next]_vars

\* ------------------------------------------------------------------ claims
IsToolRequest(m) == m.role = "assistant" /\ m.tool_calls # <<>>

IsFinalAnswer(m) == m.role = "assistant" /\ m.tool_calls = <<>>

\* a run of the graph has been started with a model that always requests tools
AlwaysRequestsTools(q) ==
    q.run >= 1 /\ q.script # NoScript /\ q.script.turns = Forever

\* C1: with a model that requests a tool on every turn, a run never takes
\* more steps than the graph's step limit and never ends with an answer: the
\* only way it ends is the failure response, status 500.
C1_IterationBound ==
    \A r \in Slots :
        AlwaysRequestsTools(req[r]) =>
            /\ req[r].steps <= RecursionLimit
            /\ req[r].pc # "END"
            /\ req[r].pc = "done" => req[r].status = 500

C1_Witness ==
    \E r \in Slots :
        /\ AlwaysRequestsTools(req[r])
        /\ req[r].pc = "done"
        /\ req[r].status = 500
        /\ req[r].steps = RecursionLimit

\* C2: in every history, an assistant message with k tool calls whose tool
\* step has run is followed by exactly k tool messages, the j-th of them
\* answering the j-th call, in whatever order the executions completed.
C2_ToolMessagesMatchCalls ==
    \A r \in Slots :
        LET h == req[r].hist
        IN  \A i \in 1..Len(h) :
                (IsToolRequest(h[i]) /\ i < Len(h)) =>
                    LET k == Len(h[i].tool_calls)
                    IN  /\ Len(h) >= i + k
                        /\ \A j \in 1..k :
                              /\ h[i + j].role = "tool"
                              /\ h[i + j].tool_call_id = h[i].tool_calls[j].id
                              /\ h[i + j].name = h[i].tool_calls[j].name
                        /\ i + k < Len(h) => h[i + k + 1].role # "tool"

C2_Witness ==
    \E r \in Slots :
        LET h == req[r].hist
        IN  /\ Len(h) >= 4
            /\ Len(h[2].tool_calls) = 2
            /\ h[2].tool_calls[1].name # h[2].tool_calls[2].name
            /\ h[3].role = "tool" /\ h[4].role = "tool"
            /\ req[r].pc = "agent"

\* C3: every tool message carries the identifier of a call of the most recent
\* assistant message before it, and only tool messages lie between the two.
C3_ToolMessageHasPrecedingCall ==
    \A r \in Slots :
        LET h == req[r].hist
        IN  \A i \in 1..Len(h) :
                h[i].role = "tool" =>
                    \E a \in 1..(i - 1) :
                        /\ h[a].role = "assistant"
                        /\ \A m \in (a + 1)..(i - 1) : h[m].role = "tool"
                        /\ \E j \in 1..Len(h[a].tool_calls) :
                              h[a].tool_calls[j].id = h[i].tool_call_id

C3_Witness ==
    \E r \in Slots :
        LET h == req[r].hist
        IN  /\ Len(h) >= 7
            /\ h[6].role = "tool"
            /\ h[7].role = "tool"
            /\ h[5].role = "assistant"

\* a response object has been returned to the caller
Responded(q) == q.pc = "done" /\ q.status = 200

\* C4: every chat request that completes with a response object has a
\* non-empty response text, in both handlers.
C4_ResponseNeverEmpty ==
    \A r \in Slots : Responded(req[r]) => req[r].response # ""

\* C5: when a run ends with a final answer, the response text is the content
\* of that last assistant message (or the fixed apology when that content is
\* empty), never the content of an earlier message.
C5_ResponseIsFinalAnswer ==
    \A r \in Slots :
        (Responded(req[r]) /\ req[r].hist # <<>>) =>
            LET final == Last(req[r].hist)
            IN  /\ IsFinalAnswer(final)
                /\ \/ req[r].response = final.content
                   \/ final.content = "" /\ req[r].response = ApologyText

\* C6: a chat request for which no credential is resolvable ends with status
\* 400 and starts no run.
C6_NoCredentialIs400 ==
    \A r \in Slots :
        (/\ req[r].pc = "done"
         /\ req[r].reqKey = NoKey
         /\ req[r].cred = NoKey
         /\ env = NoKey
         /\ agentGlobal = NoKey) =>
            /\ req[r].status = 400
            /\ req[r].run = 0
            /\ req[r].used = <<>>

\* the credential a request resolves to when no other request is handled:
\* its own, or else the one the process was configured with
OwnCredential(q) ==
    IF q.reqKey # NoKey THEN q.reqKey
    ELSE IF q.handler = "main" THEN env0
    ELSE agentGlobal

\* C7: every model call of a request is made with that request's own
\* credential, whatever other requests are handled before or during it.
C7_CredentialIsolation ==
    \A r \in Slots :
        \A i \in 1..Len(req[r].used) : req[r].used[i] = OwnCredential(req[r])

\* C8: handling chat requests leaves the ambient credential as it was.
C8_AmbientCredentialUnchanged == env = env0

\* C9: a call of a tool that is not registered is answered by an
\* error-flagged tool message carrying the call's id, and after the tool step
\* the run is back at the model call, neither ended nor failed.
C9_UnknownToolIsErrorResult ==
    \A r \in Slots :
        LET h == req[r].hist
        IN  /\ \A i \in 1..Len(h) :
                  (IsToolRequest(h[i]) /\ i < Len(h)) =>
                      \A j \in 1..Len(h[i].tool_calls) :
                          h[i].tool_calls[j].name \notin AVAILABLE_TOOLS =>
                              /\ i + j <= Len(h)
                              /\ h[i + j].role = "tool"
                              /\ h[i + j].tool_call_id = h[i].tool_calls[j].id
                              /\ h[i + j].status = "error"
            /\ (h # <<>> /\ Last(h).role = "tool") =>
                  /\ req[r].pc = "agent"
                  /\ req[r].status = 0
                  /\ req[r].steps < RecursionLimit

C9_Witness ==
    \E r \in Slots :
        LET h == req[r].hist
        IN  /\ h # <<>>
            /\ Last(h).role = "tool"
            /\ Last(h).name = "doThing"
            /\ Last(h).status = "error"
            /\ req[r].pc = "agent"

\* C10: in every history of a run, an assistant message without tool calls
\* is the last message: nothing is appended after the final answer.
C10_FinalAnswerIsLast ==
    \A r \in Slots :
        LET h == req[r].hist
        IN  \A i \in 1..Len(h) : IsFinalAnswer(h[i]) => i = Len(h)

C10_Witness ==
    \E r \in Slots :
        LET h == req[r].hist
        IN  /\ Len(h) >= 4
            /\ IsFinalAnswer(Last(h))
            /\ req[r].pc = "done"
            /\ req[r].status = 200

\* the model errors after which the call is to be attempted again
Retryable == {"rate_limited", "malformed"}

\* C11: a run that failed on a rate-limit or malformed-response error of the
\* model has attempted the failing call twice, and a run that failed on an
\* upstream-unavailable error has attempted it once.
C11_RetryOnceThenFail ==
    \A r \in Slots :
        (req[r].pc = "done" /\ req[r].error \in GatewayErrors) =>
            /\ req[r].status = 500
            /\ req[r].failures = IF req[r].error \in Retryable THEN 2 ELSE 1

NoDuplicates(names) ==
    \A i, j \in 1..Len(names) : i # j => names[i] # names[j]

\* C12: the list of tool names of every response lists no tool twice, in
\* both handlers.
C12_ToolNamesDeduplicated ==
    \A r \in Slots : Responded(req[r]) => NoDuplicates(req[r].tool_calls)

\* C13: a request during which constructing the agent or running the loop
\* raised ends with status 500, and a request handle_chat refuses for its
\* missing credential ends with status 400, not 500.
C13_FailuresAre500 ==
    \A r \in Slots :
        req[r].pc = "done" =>
            /\ req[r].error # "" => req[r].status = 500
            /\ (req[r].handler = "chat" /\ req[r].cred = NoKey) => req[r].status = 400

\* C14: every /health response is well formed, whatever the state of the
\* process-wide agent was, and its agent_initialized is true exactly when
\* the process-wide agent is non-null after health_check's initialization
\* attempt.
C14_HealthCheckReportsAgent ==
    health # NoHealth =>
        /\ health.status \in {"healthy", "error"}
        /\ health.agent_initialized \in BOOLEAN
        /\ health.agent_initialized = (mainAgent # FALSE)

\* a health check whose initialization attempt failed
C14_Witness ==
    /\ health # NoHealth
    /\ health.status = "healthy"
    /\ health.agent_initialized = FALSE
    /\ mainAgent = FALSE

IsPrefix(s, t) == Len(s) <= Len(t) /\ SubSeq(t, 1, Len(s)) = s

\* the graph's nodes and its end
RunPositions == {"agent", "action", "tools", "END"}

\* C15: every step that leaves a request in the same run of the graph
\* leaves the history it had as a prefix of the history it has: the model
\* step and the tool step only append.
C15_HistoryAppendOnly ==
    [][\A r \in Slots :
          (/\ req[r].run >= 1
           /\ req'[r].run = req[r].run
           /\ req'[r].pc \in RunPositions) =>
              IsPrefix(req[r].hist, req'[r].hist)]_vars

\* a model step has appended to a history that holds tool results
C15_Witness ==
    \E r \in Slots :
        LET h == req[r].hist
        IN  /\ req[r].pc \in {"action", "tools"}
            /\ Len(h) >= 4
            /\ h[3].role = "tool"
            /\ Last(h).role = "assistant"

\* a tool-request turn of the model that carries no call
IsMalformedTurn(m) ==
    m.role = "assistant" /\ m.finish = "tool_calls" /\ m.tool_calls = <<>>

\* C16: a run whose last model turn is a tool-request turn without calls has
\* not ended with an answer, and a run with two such turns in a row has
\* failed.
C16_EmptyToolRequestIsMalformed ==
    \A r \in Slots :
        LET h == req[r].hist
        IN  /\ (h # <<>> /\ IsMalformedTurn(Last(h))) =>
                  (req[r].pc # "END" /\ ~Responded(req[r]))
            /\ \A i \in 1..(Len(h) - 1) :
                  (IsMalformedTurn(h[i]) /\ IsMalformedTurn(h[i + 1])) =>
                      (req[r].pc = "done" /\ req[r].status = 500)

\* C17: a request handled with run_agent runs the graph from the initial
\* history once: no state of the handler is in a second run.
C17_OneRunPerRequest ==
    \A r \in Slots : req[r].handler = "chat" => req[r].run <= 1

\* C18: in a run, the position after a model turn is the tool node exactly
\* when the assistant message just appended carries tool calls and the end
\* of the graph exactly when it carries none, and the position after a tool
\* step is the model call.
C18_EdgesFollowToolCalls ==
    \A r \in Slots :
        LET h == req[r].hist
        IN  (req[r].pc \in RunPositions /\ h # <<>>) =>
                /\ req[r].pc \in {"action", "tools"} <=> IsToolRequest(Last(h))
                /\ req[r].pc = "END" <=> IsFinalAnswer(Last(h))
                /\ req[r].pc = "agent" <=> Last(h).role \in {"user", "tool"}

\* a run of main.py's graph that went through its tool node and has ended
C18_Witness ==
    \E r \in Slots :
        LET h == req[r].hist
        IN  /\ req[r].handler = "main"
            /\ req[r].pc = "END"
            /\ Len(h) >= 4
            /\ IsToolRequest(h[2])
            /\ h[Len(h) - 1].role = "tool"

\* C19: the messages the latest model call of a run was given are the whole
\* history before the assistant message that call appended, in order; since
\* then only tool messages have been appended.
C19_ModelSeesWholeHistory ==
    \A r \in Slots :
        LET h == req[r].hist
            p == req[r].prompt
        IN  (\E i \in 1..Len(h) : h[i].role = "assistant") =>
                /\ p # <<>>
                /\ Len(p) < Len(h)
                /\ p = SubSeq(h, 1, Len(p))
                /\ h[Len(p) + 1].role = "assistant"
                /\ \A i \in (Len(p) + 2)..Len(h) : h[i].role = "tool"

\* a model call that was given the error result of the tool step before it
C19_Witness ==
    \E r \in Slots :
        LET h == req[r].hist
            p == req[r].prompt
        IN  /\ Len(p) >= 3
            /\ Last(p).role = "tool"
            /\ Last(p).status = "error"
            /\ Len(h) = Len(p) + 1
            /\ Last(h).role = "assistant"

\* the names of the tool calls the model issued in a history
IssuedToolNames(h) ==
    {n \in ToolNames :
        \E i \in 1..Len(h) : \E j \in 1..Len(h[i].tool_calls) :
            h[i].tool_calls[j].name = n}

\* the names a response lists
ReportedToolNames(q) == {q.tool_calls[i] : i \in 1..Len(q.tool_calls)}

\* C20: when the run that produced a response issued tool requests and then
\* a non-empty answer, the tool names of the response are, as a set, the
\* names of the tool calls of that run.
C20_ReportedToolsAreIssuedTools ==
    \A r \in Slots :
        LET h == req[r].hist
        IN  (/\ Responded(req[r])
             /\ h # <<>>
             /\ IsFinalAnswer(Last(h))
             /\ Last(h).content # ""
             /\ \E i \in 1..Len(h) : IsToolRequest(h[i])) =>
                ReportedToolNames(req[r]) = IssuedToolNames(h)

\* C21: no step changes or assigns again a process-wide agent that is
\* initialized, main.py's or agent.py's: initialize_global_agent returns
\* True exactly when it has assigned the graph create_agent compiled, so no
\* call made while agent.py's agent is initialized returns True.  A failed
\* initialization leaves the agent null.
C21_GlobalAgentAssignedOnce ==
    [][/\ mainAgent # FALSE => mainAgent' = mainAgent
       /\ agentGlobal # NoKey =>
             /\ agentGlobal' = agentGlobal
             /\ (initReturn = NoReturn => initReturn' # "True")
       /\ (agentGlobal = NoKey /\ initReturn' = "False") => agentGlobal' = NoKey]_vars

\* C22: the history of a run started by a chat request begins with a user
\* message and holds no other one, and no run has appended the mock reply
\* of main.py's call_model: that user-role message makes should_continue
\* raise, so a run that appended it is one that failed on that error.
C22_SingleUserMessage ==
    \A r \in Slots :
        LET h == req[r].hist
        IN  /\ h # <<>> =>
                  /\ h[1].role = "user"
                  /\ \A i \in 2..Len(h) : h[i].role \in {"assistant", "tool"}
            /\ req[r].error # "attribute"

\* a /chat run of a process started without an ambient credential, after
\* its model step
C22_Witness ==
    \E r \in Slots :
        LET h == req[r].hist
        IN  /\ req[r].handler = "main"
            /\ env0 = NoKey
            /\ Len(h) = 2
            /\ h[1].role = "user"
            /\ h[2].role = "assistant"

====
